---- MODULE Spec2Model ----
(***************************************************************************)
(* A model of art-checks.py: the demographic records (QoI), the monthly    *)
(* observations (Node), the monthly-to-yearly aggregation loop of the main *)
(* program, the comparator (compare, perform_all_checks) and the per-year  *)
(* checks of one ARTRollout file.                                          *)
(*                                                                         *)
(* Python lists are 0-based; the sequences here are 1-based, and At(s, k)  *)
(* reads the element Python calls s[k].  Python floats are modelled as     *)
(* exact rationals <<numerator, denominator>> in lowest terms with a       *)
(* positive denominator; IEEE rounding in the last place is not modelled.  *)
(***************************************************************************)
EXTENDS Integers, Sequences, FiniteSets

VARIABLES
    nodal_data_times,   \* time index (row[0]) of every parsed row of the file
    file_profile,       \* which of the modelled file contents the rows carry
    arg_year,           \* sys.argv[1]
    arg_month,          \* sys.argv[2]
    arg_demographics,   \* sys.argv[4]
    pc,                 \* position of the main program in one file's processing
    i,                  \* loop variable of the running loop (0-based)
    newdiag,            \* accumulator of new diagnosis
    newenroll,          \* accumulator of enrolled within 30 days
    nodal_table,        \* the NodeYearly list
    emitted,            \* history: the loop index i of every nodal_table.append
    checks,             \* checks_2014 .. checks_2019, keyed by year
    passfail,           \* the PASS/FAIL lines written to f1 for this file
    all_checks,         \* all_checks_incare / _suppvl / _thirty, one row per file
    stdout,             \* messages printed by get_demographic
    err,                \* the exception that ended the run, if any
    call_fn,            \* the function applied by the function harness
    call_args,          \* its arguments
    ret                 \* and what it returned

vars == <<nodal_data_times, file_profile, arg_year, arg_month, arg_demographics,
          pc, i, newdiag, newenroll, nodal_table, emitted, checks, passfail,
          all_checks, stdout, err, call_fn, call_args, ret>>

runVars == <<nodal_data_times, file_profile, arg_year, arg_month, arg_demographics,
             pc, i, newdiag, newenroll, nodal_table, emitted, checks, passfail,
             all_checks, stdout, err>>

(***************************************************************************)
(* Bounds of the model.                                                    *)
(***************************************************************************)
\* longest file among the exhaustively enumerated short files
MaxShortLen == 6
\* longest file among the regular files (December, January, February rows)
MaxLongLen == 20
\* numerators of the ratios handed to compare by the harness, in hundredths
MaxSimulated == 120
\* baselines handed to compare by the harness, in tenths
MaxBaseline == 10
\* counts of the summaries handed to perform_all_checks by the harness
MaxCount == 3
\* time indices handed to get_year by the harness
MaxTime == 30
\* anchor time steps handed to get_year by the harness, either side of 0
MaxAnchorMonth == 25
\* the longest vector handed to the QoI constructor on its own
MaxVectorLen == 14

(***************************************************************************)
(* Python values.                                                          *)
(***************************************************************************)
\* the value of a bare `return`; every count is a non-negative integer
None == -1

Min(a, b) == IF a < b THEN a ELSE b
Max(a, b) == IF a > b THEN a ELSE b
Abs(a) == IF a < 0 THEN -a ELSE a

\* s[k] of a Python list
At(s, k) == s[k + 1]

\* s[a:b] of a Python list, 0 <= a <= b: clipped to the list, never an error
Slice(s, a, b) == SubSeq(s, a + 1, Min(b, Len(s)))

\* range(a, b)
Range(a, b) == a .. (b - 1)

\* int(a / b) for b > 0: the float quotient truncated toward zero
IntOfQuotient(a, b) == IF a >= 0 THEN a \div b ELSE -((-a) \div b)

RECURSIVE GCD(_, _)
GCD(a, b) == IF b = 0 THEN a ELSE GCD(b, a % b)

\* the rational n/d, d # 0, in lowest terms with a positive denominator
Rat(n, d) ==
    LET g == GCD(Abs(n), Abs(d))
        s == IF d < 0 THEN -1 ELSE 1
    IN  <<(s * n) \div g, (s * d) \div g>>

RAdd(a, b) == Rat(a[1] * b[2] + b[1] * a[2], a[2] * b[2])
RSub(a, b) == Rat(a[1] * b[2] - b[1] * a[2], a[2] * b[2])
RMul(a, b) == Rat(a[1] * b[1], a[2] * b[2])
RGreater(a, b) == a[1] * b[2] > b[1] * a[2]

\* the literals 0.1 and 0.0001
Tenth == <<1, 10>>
Epsilon == <<1, 10000>>

(***************************************************************************)
(* class Genders, Orientations, Ethnicities, QoI.                          *)
(***************************************************************************)
\* the assert of each constructor
Genders_assert(gender_data) == Len(gender_data) = 2
Orientations_assert(orientation_data) == Len(orientation_data) = 3
Ethnicities_assert(ethnicity_data) == Len(ethnicity_data) = 6

Genders(gender_data) ==
    [males |-> gender_data[1], females |-> gender_data[2]]

Orientations(orientation_data) ==
    [MSM |-> orientation_data[1], MSMW |-> orientation_data[2],
     MSW |-> orientation_data[3]]

Ethnicities(ethnicity_data) ==
    [BLACK_NON_HISPANIC |-> ethnicity_data[1], BLACK_HISPANIC |-> ethnicity_data[2],
     WHITE_NON_HISPANIC |-> ethnicity_data[3], WHITE_HISPANIC |-> ethnicity_data[4],
     OTHER_NON_HISPANIC |-> ethnicity_data[5], OTHER_HISPANIC |-> ethnicity_data[6]]

\* QoI.__init__ raises AssertionError unless the three slices have their sizes
QoI_constructs(QoI_data) ==
    /\ Genders_assert(Slice(QoI_data, 0, 2))
    /\ Orientations_assert(Slice(QoI_data, 2, 5))
    /\ Ethnicities_assert(Slice(QoI_data, 5, 11))

QoI(QoI_data) ==
    [gender |-> Genders(Slice(QoI_data, 0, 2)),
     orientation |-> Orientations(Slice(QoI_data, 2, 5)),
     ethnicity |-> Ethnicities(Slice(QoI_data, 5, 11))]

Genders_sum(g) == g.males + g.females
get_whites(e) == e.WHITE_NON_HISPANIC
get_blacks(e) == e.BLACK_NON_HISPANIC
get_other_races(e) == e.OTHER_NON_HISPANIC
get_hispanics(e) == e.BLACK_HISPANIC + e.WHITE_HISPANIC + e.OTHER_HISPANIC
get_total_number(q) == Genders_sum(q.gender)

\* the demographics get_demographic knows
Demographics == {"WHITE", "BLACK", "HISPANIC", "OTHER", "TOTAL"}

\* the value get_demographic returns; None on the else branch
get_demographic(q, demographic) ==
    IF demographic = "WHITE" THEN get_whites(q.ethnicity)
    ELSE IF demographic = "BLACK" THEN get_blacks(q.ethnicity)
    ELSE IF demographic = "HISPANIC" THEN get_hispanics(q.ethnicity)
    ELSE IF demographic = "OTHER" THEN get_other_races(q.ethnicity)
    ELSE IF demographic = "TOTAL" THEN Genders_sum(q.gender)
    ELSE None

\* what get_demographic prints: the warning of the else branch, or nothing
get_demographic_prints(demographic) ==
    IF demographic \in {"WHITE", "BLACK", "HISPANIC", "OTHER", "TOTAL"}
    THEN <<>>
    ELSE <<<<"Demographic name ", demographic, " is not defined! \n">>>>

(***************************************************************************)
(* class Node.                                                             *)
(***************************************************************************)
Node(row_month_data) ==
    [time |-> At(row_month_data, 0),
     population |-> At(row_month_data, 1),
     infected |-> QoI(Slice(row_month_data, 6, 17)),
     detected |-> QoI(Slice(row_month_data, 17, 28)),
     in_care |-> QoI(Slice(row_month_data, 28, 39)),
     new_diagnosis |-> QoI(Slice(row_month_data, 39, 50)),
     enrolled_in_30 |-> QoI(Slice(row_month_data, 50, 61)),
     suppresed_VL |-> QoI(Slice(row_month_data, 61, 72))]

\* get_year_of_month with the quotient floored instead of truncated
get_year_of_month_floored(time) == time \div 12

get_year_of_month(time) == IntOfQuotient(time, 12)

get_time_in_year(node) == IntOfQuotient(node.time, 12)

\* int(time / 12) == time / 12.0, compared as rationals
isItDecember(node) == Rat(get_time_in_year(node), 1) = Rat(node.time, 12)

get_year(node, year, month) ==
    year - (get_year_of_month(month) - get_time_in_year(node))

(***************************************************************************)
(* class NodeYearly.                                                       *)
(***************************************************************************)
NodeYearly(year, infected, detected, in_care, new_diagnosis, enrolled_in_30, suppresed_VL) ==
    [year |-> year, infected |-> infected, detected |-> detected,
     in_care |-> in_care, new_diagnosis |-> new_diagnosis,
     enrolled_in_30 |-> enrolled_in_30, suppresed_VL |-> suppresed_VL]

\* a / b of two ints raises ZeroDivisionError when b is 0
Raises(e) == [raised |-> e, value |-> <<>>]
Returns(v) == [raised |-> "none", value |-> v]

get_precent_incare(n) ==
    IF n.detected = 0 THEN Raises("ZeroDivisionError")
    ELSE Returns(Rat(n.in_care, n.detected))

get_precent_suppressed(n) ==
    IF n.detected = 0 THEN Raises("ZeroDivisionError")
    ELSE Returns(Rat(n.suppresed_VL, n.detected))

\* the denominator without the 0.0001
within30_denominator_bare(n) == Rat(n.new_diagnosis, 1)

\* the denominator new_diagnosis + 0.0001
within30_denominator(n) == RAdd(Rat(n.new_diagnosis, 1), Epsilon)

get_precent_care_within30(n) ==
    LET d == within30_denominator(n)
    IN  IF d[1] = 0 THEN Raises("ZeroDivisionError")
        ELSE Returns(Rat(n.enrolled_in_30 * d[2], d[1]))

(***************************************************************************)
(* Global functions: compare, perform_all_checks, and the baselines.       *)
(***************************************************************************)
\* compare with the upper end of the band accepted
compare_upper_inclusive(simulated, baseline) ==
    /\ ~RGreater(simulated, RAdd(baseline, RMul(Tenth, baseline)))
    /\ RGreater(simulated, RSub(baseline, RMul(Tenth, baseline)))

compare(simulated, baseline) ==
    /\ RGreater(RAdd(baseline, RMul(Tenth, baseline)), simulated)
    /\ RGreater(simulated, RSub(baseline, RMul(Tenth, baseline)))

\* one [verdict, value] element of the list perform_all_checks returns
check_of(ratio, baseline) ==
    IF compare(ratio, baseline) THEN <<"PASS", ratio>> ELSE <<"FAIL", ratio>>

perform_all_checks(nodal_table_element, year_baselines) ==
    LET incare == get_precent_incare(nodal_table_element)
        suppressed == get_precent_suppressed(nodal_table_element)
        within30 == get_precent_care_within30(nodal_table_element)
    IN  IF incare.raised # "none" THEN Raises(incare.raised)
        ELSE IF suppressed.raised # "none" THEN Raises(suppressed.raised)
        ELSE IF within30.raised # "none" THEN Raises(within30.raised)
        ELSE Returns(<<check_of(incare.value, year_baselines[1]),
                       check_of(suppressed.value, year_baselines[2]),
                       check_of(within30.value, year_baselines[3])>>)

\* a baseline written with two decimals
Hundredths(n) == Rat(n, 100)

year_2014 == <<Hundredths(67), Hundredths(52), Hundredths(64)>>
year_2015 == <<Hundredths(68), Hundredths(57), Hundredths(68)>>
year_2016 == <<Hundredths(70), Hundredths(59), Hundredths(70)>>
year_2017 == <<Hundredths(71), Hundredths(60), Hundredths(79)>>
year_2018 == <<Hundredths(72), Hundredths(62), Hundredths(84)>>
year_2019 == <<Hundredths(73), Hundredths(62), Hundredths(85)>>

\* the years of the if-chain of the checks loop, and each year's baselines
CheckedYears == {2014, 2015, 2016, 2017, 2018, 2019}

year_baselines_of(year) ==
    CASE year = 2014 -> year_2014
      [] year = 2015 -> year_2015
      [] year = 2016 -> year_2016
      [] year = 2017 -> year_2017
      [] year = 2018 -> year_2018
      [] year = 2019 -> year_2019

(***************************************************************************)
(* The files of the model.  A row holds 72 integers: the time index, the   *)
(* population, four unused columns and six stratified vectors of 11.       *)
(***************************************************************************)
\* a stratified vector: TOTAL 2n, BLACK n, WHITE n+1, HISPANIC n+2, OTHER 1
StratifiedVector(n) == <<n, n, n, 0, 0, n, 1, n + 1, 1, 1, n>>

\* the six quantities of the row of month t in the file contents `profile`:
\* profile 0 has people in every quantity, profile 1 has nobody detected
RowQuantities(t, profile) ==
    IF profile = 0
    THEN [infected |-> 7 + (t % 3), detected |-> 4 + (t % 3),
          in_care |-> 2 + (t % 3), new_diagnosis |-> 1,
          enrolled_in_30 |-> IF t % 3 = 1 THEN 0 ELSE 1,
          suppresed_VL |-> 1 + (t % 3)]
    ELSE [infected |-> t % 3, detected |-> 0, in_care |-> 0,
          new_diagnosis |-> 0, enrolled_in_30 |-> t % 2, suppresed_VL |-> 0]

\* parse_data_line's result for the row of month t
RowOf(t, profile) ==
    LET q == RowQuantities(t, profile)
    IN  <<t, 100, 0, 0, 0, 0>> \o StratifiedVector(q.infected)
          \o StratifiedVector(q.detected) \o StratifiedVector(q.in_care)
          \o StratifiedVector(q.new_diagnosis)
          \o StratifiedVector(q.enrolled_in_30)
          \o StratifiedVector(q.suppresed_VL)

\* the list nodal_data: one Node per row
nodal_data ==
    [k \in 1 .. Len(nodal_data_times) |->
        Node(RowOf(nodal_data_times[k], file_profile))]

\* the time indices the short files draw from
ShortTimes == {0, 11, 12, 13, 14, 24, 25, 26, 27}

RECURSIVE IncreasingSeqs(_, _)
\* the strictly increasing sequences over S of length at most n
IncreasingSeqs(S, n) ==
    IF n = 0 THEN {<<>>}
    ELSE LET shorter == IncreasingSeqs(S, n - 1)
             longest == {x \in shorter : Len(x) = n - 1}
             After(x) == {u \in S : Len(x) = 0 \/ u > x[Len(x)]}
         IN  shorter \cup UNION {{Append(x, t) : t \in After(x)} : x \in longest}

\* the k-th row (k >= 1) of a regular file: December, January and February
\* of every year from time index 12 on
RegularTime(k) == 12 * (((k - 1) \div 3) + 1) + ((k - 1) % 3)

RegularFiles == {[k \in 1 .. n |-> RegularTime(k)] : n \in 0 .. MaxLongLen}

FileTimes == IncreasingSeqs(ShortTimes, MaxShortLen) \cup RegularFiles

\* the (year, time step) anchors given on the command line
Anchors == {<<2014, 12>>, <<1990, 600>>}

\* a demographic get_demographic does not know
UnknownDemographic == "ASIAN"

(***************************************************************************)
(* The main program on one ARTRollout file, from the construction of       *)
(* nodal_table to the rows appended for plotting.                          *)
(***************************************************************************)
NoError == [kind |-> "none", at |-> "none"]
Error(kind, at) == [kind |-> kind, at |-> at]

NoCall == "none"

InitRun ==
    /\ nodal_data_times \in FileTimes
    /\ file_profile \in {0, 1}
    /\ \E anchor \in Anchors : arg_year = anchor[1] /\ arg_month = anchor[2]
    /\ arg_demographics \in Demographics \cup {UnknownDemographic}
    /\ pc = "aggregate"
    /\ i = 0
    /\ newdiag = 0
    /\ newenroll = 0
    /\ nodal_table = <<>>
    /\ emitted = <<>>
    /\ checks = [y \in CheckedYears |-> <<>>]
    /\ passfail = <<>>
    /\ all_checks = [incare |-> <<>>, suppvl |-> <<>>, thirty |-> <<>>]
    /\ stdout = <<>>
    /\ err = NoError

Init ==
    /\ InitRun
    /\ call_fn = NoCall
    /\ call_args = <<>>
    /\ ret = <<>>

\* a loop over every row: range(0, len(nodal_data))
AggregateBound_every_row(n) == n

\* the end of range(0, len(nodal_data) - 4)
AggregateBound(n) == n - 4

\* nodal_data[k] raises IndexError unless k is an index of the list
InList(k, list) == 0 <= k /\ k < Len(list)

Abort(kind, at) ==
    /\ err' = Error(kind, at)
    /\ pc' = "aborted"

\* one iteration of the loop that creates the yearly data table
AggregateStep ==
    /\ pc = "aggregate"
    /\ i \in Range(0, AggregateBound(Len(nodal_data)))
    /\ LET this == At(nodal_data, i)
           d == get_demographic(this.new_diagnosis, arg_demographics)
           e == get_demographic(this.enrolled_in_30, arg_demographics)
       IN  IF d = None
           THEN \* newdiag + None raises TypeError
                /\ stdout' = stdout \o get_demographic_prints(arg_demographics)
                /\ Abort("TypeError", "aggregate")
                /\ UNCHANGED <<i, newdiag, newenroll, nodal_table, emitted>>
           ELSE IF ~isItDecember(this)
           THEN /\ newdiag' = newdiag + d
                /\ newenroll' = newenroll + e
                /\ i' = i + 1
                /\ UNCHANGED <<pc, err, stdout, nodal_table, emitted>>
           ELSE IF ~InList(i + 1, nodal_data) \/ ~InList(i + 2, nodal_data)
           THEN \* nodal_data[i + j] raises IndexError
                /\ newdiag' = newdiag + d
                /\ newenroll' = newenroll + e
                /\ Abort("IndexError", "aggregate")
                /\ UNCHANGED <<i, stdout, nodal_table, emitted>>
           ELSE LET n1 == At(nodal_data, i + 1)
                    n2 == At(nodal_data, i + 2)
                    nd == newdiag + d
                          + get_demographic(n1.new_diagnosis, arg_demographics)
                          + get_demographic(n2.new_diagnosis, arg_demographics)
                    ne == newenroll + e
                          + get_demographic(n1.enrolled_in_30, arg_demographics)
                          + get_demographic(n2.enrolled_in_30, arg_demographics)
                IN  /\ nodal_table' = Append(nodal_table,
                          NodeYearly(get_year(n2, arg_year, arg_month),
                                     get_demographic(n2.infected, arg_demographics),
                                     get_demographic(n2.detected, arg_demographics),
                                     get_demographic(n2.in_care, arg_demographics),
                                     nd, ne,
                                     get_demographic(n2.suppresed_VL, arg_demographics)))
                    /\ emitted' = Append(emitted, i)
                    /\ newdiag' = 0
                    /\ newenroll' = 0
                    /\ i' = i + 1
                    /\ UNCHANGED <<pc, err, stdout>>
    /\ UNCHANGED <<nodal_data_times, file_profile, arg_year, arg_month,
                   arg_demographics, checks, passfail, all_checks, call_fn, call_args, ret>>

\* the aggregation loop is exhausted: the headers are written and the
\* checks_YYYY lists are initialised
AggregateEnd ==
    /\ pc = "aggregate"
    /\ i \notin Range(0, AggregateBound(Len(nodal_data)))
    /\ pc' = "check"
    /\ i' = 0
    /\ checks' = [y \in CheckedYears |-> <<>>]
    /\ UNCHANGED <<nodal_data_times, file_profile, arg_year, arg_month,
                   arg_demographics, newdiag, newenroll, nodal_table, emitted,
                   passfail, all_checks, stdout, err, call_fn, call_args, ret>>

\* one iteration of the loop through the yearly data
CheckStep ==
    /\ pc = "check"
    /\ i \in Range(0, Len(nodal_table))
    /\ LET element == At(nodal_table, i)
           result == perform_all_checks(element, year_baselines_of(element.year))
       IN  IF element.year \notin CheckedYears
           THEN /\ i' = i + 1
                /\ UNCHANGED <<pc, err, checks, passfail>>
           ELSE IF result.raised # "none"
           THEN /\ Abort(result.raised, "check")
                /\ UNCHANGED <<i, checks, passfail>>
           ELSE /\ checks' = [checks EXCEPT ![element.year] = result.value]
                /\ passfail' = Append(passfail,
                       <<element.year, result.value[1][1], result.value[2][1],
                         result.value[3][1]>>)
                /\ i' = i + 1
                /\ UNCHANGED <<pc, err>>
    /\ UNCHANGED <<nodal_data_times, file_profile, arg_year, arg_month,
                   arg_demographics, newdiag, newenroll, nodal_table, emitted,
                   all_checks, stdout, call_fn, call_args, ret>>

\* the numerics of the six checked years, as appended for plotting
PlotRow(k) ==
    <<checks[2014][k][2], checks[2015][k][2], checks[2016][k][2],
      checks[2017][k][2], checks[2018][k][2], checks[2019][k][2]>>

\* the checks loop is exhausted: the numerics are appended for plotting;
\* checks_YYYY[0] raises IndexError when checks_YYYY is still empty
AppendChecks ==
    /\ pc = "check"
    /\ i \notin Range(0, Len(nodal_table))
    /\ IF \E y \in CheckedYears : checks[y] = <<>>
       THEN /\ Abort("IndexError", "append")
            /\ UNCHANGED all_checks
       ELSE /\ all_checks' =
                  [incare |-> Append(all_checks.incare, PlotRow(1)),
                   suppvl |-> Append(all_checks.suppvl, PlotRow(2)),
                   thirty |-> Append(all_checks.thirty, PlotRow(3))]
            /\ pc' = "done"
            /\ UNCHANGED err
    /\ UNCHANGED <<nodal_data_times, file_profile, arg_year, arg_month,
                   arg_demographics, i, newdiag, newenroll, nodal_table, emitted,
                   checks, passfail, stdout, call_fn, call_args, ret>>

Next == AggregateStep \/ AggregateEnd \/ CheckStep \/ AppendChecks

Spec == Init /\ [][Next]_vars

(***************************************************************************)
(* The functions applied on their own to inputs drawn from bounded sets.   *)
(***************************************************************************)
SimulatedRatios == {Rat(k, 100) : k \in (-MaxSimulated) .. MaxSimulated}
BaselineRatios == {Rat(m, 10) : m \in (-MaxBaseline) .. MaxBaseline}

Summaries ==
    {NodeYearly(2014, MaxCount, detected, in_care, new_diagnosis, enrolled_in_30,
                suppresed_VL) :
        detected \in 0 .. MaxCount, in_care \in 0 .. MaxCount,
        new_diagnosis \in 0 .. MaxCount, enrolled_in_30 \in 0 .. MaxCount,
        suppresed_VL \in 0 .. MaxCount}

DefaultBaselines ==
    {year_2014, year_2015, year_2016, year_2017, year_2018, year_2019}

\* baselines as large as the within-30 ratio of a year without new diagnosis:
\* either side of 10000 / 1.1, and either side of 10000 / 0.9
LargeBaselines ==
    {<<Rat(1, 1), Rat(1, 1), Rat(b, 1)>> : b \in {1, 9090, 9091, 11111, 11112}}

\* the large baselines meet only summaries without new diagnosis, whose
\* within-30 ratio is an integer, so that every product stays below 2^31
BaselinesFor(summary) ==
    IF summary.new_diagnosis = 0 THEN DefaultBaselines \cup LargeBaselines
    ELSE DefaultBaselines

AnchorMonths == ((-MaxAnchorMonth) .. MaxAnchorMonth) \cup {600}

\* vectors of every length up to MaxVectorLen, filled with one count
Vectors ==
    {[k \in 1 .. n |-> c] : n \in 0 .. MaxVectorLen, c \in 0 .. MaxCount}

InitCalls ==
    /\ nodal_data_times = <<>>
    /\ file_profile = 0
    /\ arg_year = 1990
    /\ arg_month = 600
    /\ arg_demographics = "TOTAL"
    /\ pc = "idle"
    /\ i = 0
    /\ newdiag = 0
    /\ newenroll = 0
    /\ nodal_table = <<>>
    /\ emitted = <<>>
    /\ checks = [y \in CheckedYears |-> <<>>]
    /\ passfail = <<>>
    /\ all_checks = [incare |-> <<>>, suppvl |-> <<>>, thirty |-> <<>>]
    /\ stdout = <<>>
    /\ err = NoError
    /\ call_fn = NoCall
    /\ call_args = <<>>
    /\ ret = <<>>

CallCompare ==
    /\ call_fn = NoCall
    /\ call_fn' = "compare"
    /\ \E simulated \in SimulatedRatios, baseline \in BaselineRatios :
          /\ call_args' = <<simulated, baseline>>
          /\ ret' = compare(simulated, baseline)
    /\ UNCHANGED runVars

CallPerformAllChecks ==
    /\ call_fn = NoCall
    /\ call_fn' = "perform_all_checks"
    /\ \E summary \in Summaries :
          \E year_baselines \in BaselinesFor(summary) :
             /\ call_args' = <<summary, year_baselines>>
             /\ ret' = perform_all_checks(summary, year_baselines)
    /\ UNCHANGED runVars

CallGetYear ==
    /\ call_fn = NoCall
    /\ call_fn' = "get_year"
    /\ \E t \in 0 .. MaxTime, year \in {1990, 2014}, month \in AnchorMonths :
          /\ call_args' = <<t, year, month>>
          /\ ret' = get_year(Node(RowOf(t, 0)), year, month)
    /\ UNCHANGED runVars

CallGetDemographic ==
    /\ call_fn = NoCall
    /\ call_fn' = "get_demographic"
    /\ \E n \in 0 .. MaxCount,
          demographic \in Demographics \cup {UnknownDemographic} :
          /\ call_args' = <<n, demographic>>
          /\ ret' = [value |-> get_demographic(QoI(StratifiedVector(n)), demographic),
                     printed |-> get_demographic_prints(demographic)]
    /\ UNCHANGED runVars

\* QoI(QoI_data) on a vector of any length: the constructed record, or the
\* AssertionError of the first constructor whose slice has the wrong size
CallQoI ==
    /\ call_fn = NoCall
    /\ call_fn' = "QoI"
    /\ \E QoI_data \in Vectors :
          /\ call_args' = <<QoI_data>>
          /\ ret' = IF QoI_constructs(QoI_data) THEN Returns(QoI(QoI_data))
                    ELSE Raises("AssertionError")
    /\ UNCHANGED runVars

NextCalls ==
    \/ CallCompare
    \/ CallPerformAllChecks
    \/ CallGetYear
    \/ CallGetDemographic
    \/ CallQoI

SpecCalls == InitCalls /\ [][NextCalls]_vars

(***************************************************************************)
(* The claims.                                                             *)
(***************************************************************************)
\* the aggregation loop ran to its end without an exception
LoopOver == pc \in {"check", "done"} \/ (pc = "aborted" /\ err.at # "aggregate")

\* the 0-based positions of nodal_data
Positions == 0 .. (Len(nodal_data) - 1)

\* the row at position k is a year-end: its time index is a multiple of 12
YearEnd(k) == nodal_data_times[k + 1] % 12 = 0

\* the elements of a sequence
Elements(s) == {s[k] : k \in 1 .. Len(s)}

\* C1: compare(s, b) is true exactly when 0.9*b < s < 1.1*b, both strict: a
\* value on either boundary is rejected, and so is s = b when b <= 0.
C1_CompareStrictBand ==
    call_fn = "compare" =>
        LET sn == call_args[1][1]
            sd == call_args[1][2]
            bn == call_args[2][1]
            bd == call_args[2][2]
        IN  /\ ret = (9 * bn * sd < 10 * sn * bd /\ 10 * sn * bd < 11 * bn * sd)
            /\ (10 * sn * bd = 9 * bn * sd \/ 10 * sn * bd = 11 * bn * sd)
                  => ret = FALSE
            /\ (bn <= 0 /\ call_args[1] = call_args[2]) => ret = FALSE

\* C1 witness: a simulated ratio exactly on the upper boundary of a positive
\* baseline is rejected.
C1_Witness ==
    /\ call_fn = "compare"
    /\ call_args[2][1] > 0
    /\ 10 * call_args[1][1] * call_args[2][2] = 11 * call_args[2][1] * call_args[1][2]
    /\ ret = FALSE

\* C2: perform_all_checks returns, for every summary and baseline triple,
\* three (verdict, value) pairs in the order in-care, suppressed, within-30,
\* each value the summary's ratio and each verdict PASS exactly when compare
\* accepts the value against the baseline at the same position.
C2_ThreeVerdictsForEverySummary ==
    call_fn = "perform_all_checks" =>
        LET summary == call_args[1]
            year_baselines == call_args[2]
            value(k) == ret.value[k][2]
            verdict(k) == ret.value[k][1]
        IN  /\ ret.raised = "none"
            /\ Len(ret.value) = 3
            /\ value(1)[1] * summary.detected = summary.in_care * value(1)[2]
            /\ value(2)[1] * summary.detected = summary.suppresed_VL * value(2)[2]
            /\ value(3)[1] * (10000 * summary.new_diagnosis + 1)
                  = 10000 * summary.enrolled_in_30 * value(3)[2]
            /\ \A k \in 1 .. 3 :
                  verdict(k) = IF compare(value(k), year_baselines[k])
                               THEN "PASS" ELSE "FAIL"

\* C3: when the aggregation loop is over, one summary has been appended for
\* every year-end row that is followed by at least two further rows, and for
\* no other row.
C3_SummaryForEveryYearEndWithTwoFollowers ==
    LoopOver =>
        /\ Elements(emitted) = {k \in Positions : YearEnd(k) /\ k + 2 \in Positions}
        /\ Len(emitted) = Cardinality(Elements(emitted))
        /\ Len(nodal_table) = Len(emitted)

\* C4: the aggregation truncates silently: the loop never reads past the end
\* of nodal_data and, for a known demographic, ends without an exception for
\* every file length; a file without a year-end row yields no summary, and a
\* year-end row followed by fewer than two rows yields none.
C4_TruncatesSilently ==
    /\ err # Error("IndexError", "aggregate")
    /\ arg_demographics \in Demographics => err.at # "aggregate"
    /\ pc = "aggregate" => i \in 0 .. Max(0, Len(nodal_data) - 4)
    /\ Len(nodal_table) = Len(emitted)
    /\ \A k \in Elements(emitted) : YearEnd(k) /\ k + 2 \in Positions
    /\ (\A k \in Positions : ~YearEnd(k)) => nodal_table = <<>>

\* C4 witness: the loop ran over a file of five or more rows whose only
\* year-end rows have fewer than two rows after them, and appended nothing.
C4_Witness ==
    /\ pc = "check"
    /\ Len(nodal_data) >= 5
    /\ \E k \in Positions : YearEnd(k)
    /\ \A k \in Positions : YearEnd(k) => k + 2 \notin Positions
    /\ nodal_table = <<>>
    /\ err = NoError

\* C5: the summary appended at a year-end row at position p takes infected,
\* detected, in-care and suppressed from the row at position p + 2, and its
\* year, computed from that row, is the calendar year of the year-end row.
C5_SnapshotTwoRowsLaterSameYear ==
    \A j \in 1 .. Len(nodal_table) :
        LET p == emitted[j]
            december == At(nodal_data, p)
            later == At(nodal_data, p + 2)
            summary == nodal_table[j]
        IN  /\ summary.infected = get_demographic(later.infected, arg_demographics)
            /\ summary.detected = get_demographic(later.detected, arg_demographics)
            /\ summary.in_care = get_demographic(later.in_care, arg_demographics)
            /\ summary.suppresed_VL
                  = get_demographic(later.suppresed_VL, arg_demographics)
            /\ summary.year = arg_year - ((arg_month \div 12) - (later.time \div 12))
            /\ summary.year
                  = arg_year - ((arg_month \div 12) - (december.time \div 12))

\* C6: the years of the summaries appended so far are strictly increasing in
\* list order.
C6_YearsStrictlyIncreasing ==
    \A j, k \in 1 .. Len(nodal_table) :
        j < k => nodal_table[j].year < nodal_table[k].year

\* C7, as amended: for a time index t >= 0 get_year returns
\* referenceYear - (trunc(referenceMonth/12) - floor(t/12)), trunc rounding
\* toward zero; anchor (1990, 600) maps 12 to 1941 and 24 to 1942, and a time
\* index 12 later maps to the next year.
C7_GetYearTruncatesAnchor ==
    call_fn = "get_year" =>
        LET t == call_args[1]
            year == call_args[2]
            month == call_args[3]
            truncated == IF month >= 0 THEN month \div 12 ELSE -((-month) \div 12)
        IN  /\ ret = year - (truncated - (t \div 12))
            /\ (year = 1990 /\ month = 600 /\ t = 12) => ret = 1941
            /\ (year = 1990 /\ month = 600 /\ t = 24) => ret = 1942
            /\ get_year(Node(RowOf(t + 12, 0)), year, month) = ret + 1

\* C7 witness: get_year applied with an anchor time step below zero that is
\* no multiple of 12.
C7_Witness ==
    /\ call_fn = "get_year"
    /\ call_args[3] < 0
    /\ call_args[3] % 12 # 0
    /\ ret = call_args[2] + (call_args[1] \div 12)

\* C7, as claimed: get_year returns
\* referenceYear - (floor(referenceMonth/12) - floor(t/12)) for every anchor.
C7_GetYearFloorsAnchor ==
    call_fn = "get_year" =>
        ret = call_args[2] - ((call_args[3] \div 12) - (call_args[1] \div 12))

\* C8: for a summary whose new-diagnosis count is 0 the within-30 ratio is
\* enrolled/0.0001, computed without a division error, and its verdict is
\* FAIL against every positive baseline below that ratio divided by 1.1, and
\* against every default baseline whether enrolled is 0 or more.
C8_NoNewDiagnosisFails ==
    (call_fn = "perform_all_checks" /\ call_args[1].new_diagnosis = 0) =>
        LET summary == call_args[1]
            baseline == call_args[2][3]
            ratio == 10000 * summary.enrolled_in_30
            within_30_check == check_of(<<ratio, 1>>, baseline)
        IN  /\ get_precent_care_within30(summary) = Returns(<<ratio, 1>>)
            /\ (baseline[1] > 0 /\ 11 * baseline[1] < 10 * ratio * baseline[2])
                  => within_30_check[1] = "FAIL"
            /\ call_args[2] \in DefaultBaselines => within_30_check[1] = "FAIL"
            /\ summary.detected # 0 =>
                  /\ ret.raised = "none"
                  /\ ret.value[3] = within_30_check

\* C8 witness: a summary without new diagnosis and with people enrolled is
\* checked against a default baseline and its within-30 verdict is FAIL.
C8_Witness ==
    /\ call_fn = "perform_all_checks"
    /\ call_args[1].new_diagnosis = 0
    /\ call_args[1].enrolled_in_30 >= 1
    /\ call_args[2] \in DefaultBaselines
    /\ ret.raised = "none"
    /\ ret.value[3][1] = "FAIL"

\* C9: when nodal_table holds a year without a baseline entry, no verdict is
\* written for that year, the checked years hold the result of
\* perform_all_checks, and the run does not fail (a division error of
\* perform_all_checks apart).
C9_UnbaselinedYearIsSkipped ==
    (\E j \in 1 .. Len(nodal_table) : nodal_table[j].year \notin CheckedYears) =>
        /\ \A k \in 1 .. Len(passfail) : passfail[k][1] \in CheckedYears
        /\ err.kind \in {"none", "ZeroDivisionError"}

\* C10: a demographic filter get_demographic does not know is reported and is
\* not fatal: the run goes on through the aggregation and is never aborted.
C10_UnknownDemographicNotFatal ==
    arg_demographics \notin Demographics =>
        /\ pc # "aborted"
        /\ err = NoError

\* C11: constructing a QoI fails for every vector whose length is not 11,
\* shorter or longer, and succeeds for every vector of length 11.
C11_QoIConstructsExactlyForEleven ==
    call_fn = "QoI" =>
        /\ Len(call_args[1]) = 11 => ret.raised = "none"
        /\ Len(call_args[1]) < 11 => ret.raised = "AssertionError"
        /\ Len(call_args[1]) > 11 => ret.raised = "AssertionError"

\* the sum of a sequence of integers
RECURSIVE SumSeq(_)
SumSeq(s) == IF s = <<>> THEN 0 ELSE s[1] + SumSeq(Tail(s))

\* the monthly new-diagnosis counts of the input, for the demographic filter
MonthlyNewDiagnosis ==
    [k \in 1 .. Len(nodal_data) |->
        get_demographic(nodal_data[k].new_diagnosis, arg_demographics)]

\* the cumulative new-diagnosis fields of the summaries appended so far
SummaryNewDiagnosis ==
    [j \in 1 .. Len(nodal_table) |-> nodal_table[j].new_diagnosis]

\* C12: no monthly count is added into the cumulative fields of more than one
\* summary: for a known demographic the cumulative new-diagnosis fields of
\* the summaries appended so far never sum to more than the monthly
\* new-diagnosis counts of the whole input.
C12_NoMonthCountedTwice ==
    arg_demographics \in Demographics =>
        SumSeq(SummaryNewDiagnosis) <= SumSeq(MonthlyNewDiagnosis)

\* C13: evaluating a summary the aggregation appended, of a year from 2014 to
\* 2019, completes with three defined ratios: the run is never aborted by a
\* division error, a summary whose detected count is 0 included, and every
\* such summary the check loop has passed left its three results.
C13_EvaluationCompletes ==
    /\ err.kind # "ZeroDivisionError"
    /\ pc = "check" =>
          \A j \in 1 .. i :
              nodal_table[j].year \in CheckedYears =>
                  /\ Len(checks[nodal_table[j].year]) = 3
                  /\ \E k \in 1 .. Len(passfail) :
                        passfail[k][1] = nodal_table[j].year

====
